---- MODULE Spec2Model ----
(***************************************************************************)
(* Model of the process-state reconstruction of PowerMaxZ/process-state:   *)
(* BPMNHandler (src/src/bpmn_handler.py) and StateComputer                 *)
(* (src/src/state_computer.py).                                            *)
(*                                                                         *)
(* Representation.  Python None (a missing id) is the string "None";       *)
(* pandas NaT / a None time is the number NaT, and real times are the      *)
(* naturals from 1 on.  A marking is a set of flow ids; the canonical key  *)
(* tuple(sorted(marking)) is represented by the set itself.  The lists     *)
(* enabled_activities and enabled_gateways are filled while iterating the  *)
(* set state_flows, whose order Python leaves open: they are modelled as   *)
(* functions from the flow id of the iteration to the appended entry.      *)
(***************************************************************************)
EXTENDS Integers, Sequences, FiniteSets, TLC

None == "None"
NaT == 0

\* ------------------------------------------------------------------ bounds
MaxEvents == 2
MaxEdges == 1
MaxFlows == 3
MaxTasks == 2

\* ------------------------------------------------------------- input sets
TaskIds == {"A", "B"}
FlowIds == {"f1", "f2", "f3"}
LogNames == {"a", "b", "x"}

\* The model documents: tasks A ("a") and B ("b"), a gateway g, an end
\* event, and three sequence flows in document order.
Documents ==
  { [ tasks |-> << [id |-> "A", name |-> "a"], [id |-> "B", name |-> "b"] >>,
      endEvents |-> {"end"},
      flows |-> << [id |-> "f1", sourceRef |-> "start", targetRef |-> t1],
                   [id |-> "f2", sourceRef |-> "A", targetRef |-> t2],
                   [id |-> "f3", sourceRef |-> st3[1], targetRef |-> st3[2]] >> ]
    : t1 \in {"A", "g"}, t2 \in {"B", "g"},
      st3 \in { <<"B", "end">>, <<"g", "end">> } }

\* ------------------------------------------------------------ BPMNHandler
\* Variant: the first position, as if an earlier entry were kept.
LastWith_First(elements, attr, v) ==
  CHOOSE i \in DOMAIN elements :
    /\ elements[i][attr] = v
    /\ \A j \in DOMAIN elements : elements[j][attr] = v => i <= j

\* The last position of a sequence of document elements whose attribute
\* attr has the value v: a later assignment to the same key overwrites.
LastWith(elements, attr, v) ==
  CHOOSE i \in DOMAIN elements :
    /\ elements[i][attr] = v
    /\ \A j \in DOMAIN elements : elements[j][attr] = v => j <= i

\* task.attrib.get('name', f"Unnamed Task {t_id}"): a task element without
\* a name attribute (name None here) gets a name made from its id.
t_name(task) ==
  IF task.name = None THEN "Unnamed Task " \o task.id ELSE task.name

\* parse_bpmn_xml: the tables filled from the document, in document order.
parse_bpmn_xml(doc) ==
  LET tasks == [ i \in DOMAIN doc.tasks |->
                   [ id |-> doc.tasks[i].id, name |-> t_name(doc.tasks[i]) ] ]
      ids == { tasks[i].id : i \in DOMAIN tasks }
      names == { tasks[i].name : i \in DOMAIN tasks }
      fids == { doc.flows[i].id : i \in DOMAIN doc.flows }
  IN [ activities |-> [t \in ids |-> tasks[LastWith(tasks, "id", t)].name],
       task_name_to_id |-> [n \in names |-> tasks[LastWith(tasks, "name", n)].id],
       end_events |-> doc.endEvents,
       sequence_flows |-> [f \in fids |-> doc.flows[LastWith(doc.flows, "id", f)].targetRef],
       flow_sources |-> [f \in fids |-> doc.flows[LastWith(doc.flows, "id", f)].sourceRef],
       flow_order |-> [i \in DOMAIN doc.flows |-> doc.flows[i].id] ]

\* dict.get(key): None when the key is absent.
Get(d, k) == IF k \in DOMAIN d THEN d[k] ELSE None

\* ------------------------------------------------------------------ state
VARIABLES
  document,             \* the BPMN file at bpmn_model_path
  bpmn,                 \* BPMNHandler tables after parse_bpmn_xml
  reachability_graph,   \* ReachabilityGraph read by the StateComputer
  n_gram_index,         \* the matcher's answer for each n-gram of the log
  event_log,            \* event_log_df: the sequence of rows
  concurrency,          \* concurrency_oracle.concurrency
  initial_concurrency,  \* the oracle table compute_case_states started with
  enabled_since_calls,  \* (case, activity) pairs passed to enabled_since
  pending,              \* case ids the groupby loop has not reached yet
  locals,               \* per processed case: the locals of its iteration
  case_states,          \* the mapping being built; returned when pending = {}
  traversal,            \* locals of a get_upstream_tasks_through_gateways call
  lookup                \* the last get_task_id_by_name call and its result

vars == << document, bpmn, reachability_graph, n_gram_index, event_log, concurrency,
           initial_concurrency, enabled_since_calls, pending, locals,
           case_states, traversal, lookup >>

TRACE_START == "DEFAULT_TRACE_START_LABEL"

SetMax(S) == IF S = {} THEN NaT ELSE CHOOSE m \in S : \A x \in S : x <= m
isna(t) == t = NaT

\* x < y on times as Python evaluates it: a comparison with NaT is False.
Lt(x, y) == ~ isna(x) /\ ~ isna(y) /\ x < y

\* The builtin min over a column read in order: the first value is kept
\* until a later one compares smaller.
RECURSIVE MinFrom(_, _, _)
MinFrom(column, i, m) ==
  IF i > Len(column) THEN m
  ELSE MinFrom(column, i + 1, IF Lt(column[i], m) THEN column[i] ELSE m)

min(column) == MinFrom(column, 2, column[1])

\* Variant: the end events were collected under a tag the document does not
\* use, so the set is empty.
is_end_event_Never(element_id) == element_id \in {}

is_end_event(element_id) == element_id \in bpmn.end_events

get_task_id_by_name(name) == Get(bpmn.task_name_to_id, name)

\* Variant: "visited.add(src)" is missing.
RECURSIVE UpstreamScan_NoMark(_, _, _)
UpstreamScan_NoMark(current, i, sv) ==
  IF i > Len(bpmn.flow_order) THEN sv
  ELSE LET sf_id == bpmn.flow_order[i]
           src == bpmn.flow_sources[sf_id]
       IN IF bpmn.sequence_flows[sf_id] = current /\ src \notin sv[2]
          THEN UpstreamScan_NoMark(current, i + 1, << Append(sv[1], src), sv[2] >>)
          ELSE UpstreamScan_NoMark(current, i + 1, sv)

\* The for loop over sequence_flows.items() for one popped element: flows
\* are visited in insertion order; every unvisited source is marked and
\* pushed.  sv = <<stack, visited>>.
RECURSIVE UpstreamScan(_, _, _)
UpstreamScan(current, i, sv) ==
  IF i > Len(bpmn.flow_order) THEN sv
  ELSE LET sf_id == bpmn.flow_order[i]
           src == bpmn.flow_sources[sf_id]
       IN IF bpmn.sequence_flows[sf_id] = current /\ src \notin sv[2]
          THEN UpstreamScan(current, i + 1, << Append(sv[1], src), sv[2] \cup {src} >>)
          ELSE UpstreamScan(current, i + 1, sv)

RECURSIVE UpstreamLoop(_, _, _)
RECURSIVE UpstreamLoop_ThroughTasks(_, _, _)

\* Variant: the "continue" after recording a task is missing, so the flows
\* into a task are followed as well.
UpstreamLoop_ThroughTasks(stack, visited, tasks_found) ==
  IF stack = << >> THEN tasks_found
  ELSE LET current == stack[Len(stack)]
           rest == SubSeq(stack, 1, Len(stack) - 1)
           sv == UpstreamScan(current, 1, << rest, visited >>)
       IN UpstreamLoop_ThroughTasks(
            sv[1], sv[2],
            IF current \in DOMAIN bpmn.activities
            THEN tasks_found \cup {current} ELSE tasks_found)

\* The while loop: pop the last element; an activity is recorded and not
\* expanded, anything else is expanded over its incoming flows.
UpstreamLoop(stack, visited, tasks_found) ==
  IF stack = << >> THEN tasks_found
  ELSE LET current == stack[Len(stack)]
           rest == SubSeq(stack, 1, Len(stack) - 1)
       IN IF current \in DOMAIN bpmn.activities
          THEN UpstreamLoop(rest, visited, tasks_found \cup {current})
          ELSE LET sv == UpstreamScan(current, 1, << rest, visited >>)
               IN UpstreamLoop(sv[1], sv[2], tasks_found)

\* Variant: the visited test is inverted ("if src in visited"), so nothing
\* is ever pushed and only the start element is looked at.
get_upstream_tasks_through_gateways_Inverted(gateway_id) ==
  IF gateway_id \in DOMAIN bpmn.activities THEN {gateway_id} ELSE {}

get_upstream_tasks_through_gateways(gateway_id) ==
  UpstreamLoop(<< gateway_id >>, {}, {})

\* ---------------------------------------------------------- StateComputer
\* The ascending order of sort_values with na_position = 'last': a missing
\* time comes after every time, and after the missing times before it.
NotAfter(x, y) == isna(y) \/ (~ isna(x) /\ x <= y)

\* group.sort_values(start_time): an insertion sort by start time that
\* keeps the logged order of rows with equal keys.
RECURSIVE InsertByStart(_, _)
InsertByStart(sorted, row) ==
  IF sorted = << >> THEN << row >>
  ELSE IF NotAfter(sorted[Len(sorted)].start_time, row.start_time)
       THEN Append(sorted, row)
       ELSE Append(InsertByStart(SubSeq(sorted, 1, Len(sorted) - 1), row),
                   sorted[Len(sorted)])

RECURSIVE sort_values(_)
sort_values(rows) ==
  IF rows = << >> THEN << >>
  ELSE InsertByStart(sort_values(SubSeq(rows, 1, Len(rows) - 1)), rows[Len(rows)])

CaseIds(log) == { log[i].case : i \in DOMAIN log }

\* The group of one case, sorted by start time.
Group(log, case_id) ==
  LET P(row) == row.case = case_id IN sort_values(SelectSeq(log, P))

IsOngoing(row) == isna(row.end_time)
IsFinished(row) == ~ isna(row.end_time)

finished_activities(group) == SelectSeq(group, IsFinished)

\* Variant: the start time is recorded as the enabled time.
OngoingRecord_StartTime(row, table) ==
  LET task_id == get_task_id_by_name(row.activity)
      stime == row.start_time
  IN [ id |-> task_id,
       start_time |-> stime,
       resource |-> row.resource,
       enabled_time |->
         IF isna(stime) \/ task_id = None THEN NaT
         ELSE IF row.activity \notin DOMAIN table THEN NaT
         ELSE stime ]

\* One appended record of ongoing_activities.
OngoingRecord(row, table) ==
  LET task_id == get_task_id_by_name(row.activity)
      stime == row.start_time
  IN [ id |-> task_id,
       start_time |-> stime,
       resource |-> row.resource,
       enabled_time |->
         IF isna(stime) \/ task_id = None THEN NaT
         ELSE IF row.activity \notin DOMAIN table THEN NaT
         ELSE row.enabled_time ]

ongoing_activities(group, table) ==
  LET og == SelectSeq(group, IsOngoing)
  IN [ i \in DOMAIN og |-> OngoingRecord(og[i], table) ]

n_gram(group) == << TRACE_START >> \o [ i \in DOMAIN group |-> group[i].activity ]

get_best_marking_state_for(trace) == n_gram_index[trace]

\* The position of the first incoming edge whose activity label equals
\* t_id (edge_to_activity.get gives None for an edge without a label), or 0.
RECURSIVE FirstMatchingEdge(_, _, _)
FirstMatchingEdge(incoming_edges, i, t_id) ==
  IF i > Len(incoming_edges) THEN 0
  ELSE IF Get(reachability_graph.edge_to_activity, incoming_edges[i]) = t_id
       THEN i
       ELSE FirstMatchingEdge(incoming_edges, i + 1, t_id)

\* Variant: the source marking is united with the flows, not intersected.
IntersectWithSource_Union(flows, current_marking_id, t_id) ==
  LET incoming_edges ==
        IF current_marking_id \in DOMAIN reachability_graph.incoming_edges
        THEN reachability_graph.incoming_edges[current_marking_id]
        ELSE << >>
      k == FirstMatchingEdge(incoming_edges, 1, t_id)
  IN IF k = 0 THEN flows
     ELSE flows \cup reachability_graph.markings[
                       reachability_graph.edges[incoming_edges[k]][1]]

\* The body of "for activity in ongoing_activities" for one activity.
IntersectWithSource(flows, current_marking_id, t_id) ==
  LET incoming_edges ==
        IF current_marking_id \in DOMAIN reachability_graph.incoming_edges
        THEN reachability_graph.incoming_edges[current_marking_id]
        ELSE << >>
      k == FirstMatchingEdge(incoming_edges, 1, t_id)
  IN IF k = 0 THEN flows
     ELSE LET source_marking_id == reachability_graph.edges[incoming_edges[k]][1]
          IN flows \cap reachability_graph.markings[source_marking_id]

RECURSIVE CorrectFlows(_, _, _, _)
CorrectFlows(ongoing, i, flows, current_marking_id) ==
  IF i > Len(ongoing) THEN flows
  ELSE CorrectFlows(ongoing, i + 1,
                    IntersectWithSource(flows, current_marking_id, ongoing[i].id),
                    current_marking_id)

\* state_flows after the ongoing-activity correction.
state_flows(state_marking, ongoing) ==
  LET current_marking_id == Get(reachability_graph.marking_to_key, state_marking)
  IN IF current_marking_id # None
     THEN CorrectFlows(ongoing, 1, state_marking, current_marking_id)
     ELSE state_marking

ongoing_activity_ids(ongoing) == { ongoing[i].id : i \in DOMAIN ongoing }

\* ConcurrencyOracle.enabled_since for a probe event of the given activity
\* at probe_time: the latest end time of a history event that ended before
\* the probe and whose activity is not concurrent to the probe's activity.
enabled_since(table, trace, activity_name, probe_time) ==
  SetMax({ trace[i].end_time : i \in
           { j \in DOMAIN trace : /\ trace[j].end_time < probe_time
                                  /\ trace[j].activity \notin table[activity_name] } })

MaxEnd(rows) == SetMax({ rows[i].end_time : i \in DOMAIN rows })
MinStart(rows) == min([ i \in DOMAIN rows |-> rows[i].start_time ])

\* Variant: every flow of the model into an activity, in state_flows or not.
ActivityFlows_Model(flows) ==
  { f \in DOMAIN bpmn.sequence_flows :
      bpmn.sequence_flows[f] \in DOMAIN bpmn.activities }

\* The flows of state_flows whose target is a model activity.
ActivityFlows(flows) ==
  { f \in flows : Get(bpmn.sequence_flows, f) \in DOMAIN bpmn.activities }

\* Variant: the entry of every enabled activity is reset, present or not.
RegisterEnabled_Overwrite(table, flows, finished) ==
  IF Len(finished) = 0 THEN table
  ELSE LET names == { bpmn.activities[bpmn.sequence_flows[f]] : f \in ActivityFlows(flows) }
       IN [ n \in DOMAIN table \cup names |->
              IF n \in names THEN {} ELSE table[n] ]

\* Variant: the registration is made before the test for finished events.
RegisterEnabled_Always(table, flows, finished) ==
  LET names == { bpmn.activities[bpmn.sequence_flows[f]] : f \in ActivityFlows(flows) }
  IN [ n \in DOMAIN table \cup names |->
         IF n \in DOMAIN table THEN table[n] ELSE {} ]

\* The lazy registrations of the enabled-activity loop.
RegisterEnabled(table, flows, finished) ==
  IF Len(finished) = 0 THEN table
  ELSE LET names == { bpmn.activities[bpmn.sequence_flows[f]] : f \in ActivityFlows(flows) }
       IN [ n \in DOMAIN table \cup names |->
              IF n \in DOMAIN table THEN table[n] ELSE {} ]

enabled_activities(flows, group, finished, table) ==
  [ f \in ActivityFlows(flows) |->
      LET target_ref == bpmn.sequence_flows[f]
          activity_name == bpmn.activities[target_ref]
      IN [ id |-> target_ref,
           enabled_time |->
             IF Len(finished) = 0 THEN MinStart(group)
             ELSE enabled_since(RegisterEnabled(table, flows, finished), finished,
                                activity_name, MaxEnd(finished) + 1) ] ]

\* Variant: the upstream tasks are ignored.
_compute_gateway_enabled_time_Global(gateway_id, group, ended) == MaxEnd(ended)

_compute_gateway_enabled_time(gateway_id, group, ended) ==
  LET tasks_upstream == get_upstream_tasks_through_gateways(gateway_id)
      task_names == { bpmn.activities[t_id] :
                      t_id \in tasks_upstream \cap DOMAIN bpmn.activities }
      sub == SelectSeq(ended, LAMBDA row : row.activity \in task_names)
      max_et == MaxEnd(sub)
  IN IF tasks_upstream = {} THEN MaxEnd(ended)
     ELSE IF isna(max_et) THEN MaxEnd(ended) ELSE max_et

\* Variant: a gateway is listed whether its enabled time is defined or not.
GatewayFlows_NoTimeCheck(flows, group, finished, ongoing_ids) ==
  { f \in flows :
      LET gw_id == Get(bpmn.sequence_flows, f)
      IN /\ gw_id # None
         /\ gw_id # ""
         /\ gw_id \notin DOMAIN bpmn.activities
         /\ get_upstream_tasks_through_gateways(gw_id) \cap ongoing_ids = {} }

\* Variant: gateways with an ongoing upstream task are not skipped.
GatewayFlows_NoSuppression(flows, group, finished, ongoing_ids) ==
  { f \in flows :
      LET gw_id == Get(bpmn.sequence_flows, f)
      IN /\ gw_id # None
         /\ gw_id # ""
         /\ gw_id \notin DOMAIN bpmn.activities
         /\ ~ isna(_compute_gateway_enabled_time(gw_id, group, finished)) }

\* The flows whose target passes "gw_id and gw_id not in activities", is
\* not skipped for an ongoing upstream task and has a defined enabled time.
GatewayFlows(flows, group, finished, ongoing_ids) ==
  { f \in flows :
      LET gw_id == Get(bpmn.sequence_flows, f)
      IN /\ gw_id # None
         /\ gw_id # ""
         /\ gw_id \notin DOMAIN bpmn.activities
         /\ get_upstream_tasks_through_gateways(gw_id) \cap ongoing_ids = {}
         /\ ~ isna(_compute_gateway_enabled_time(gw_id, group, finished)) }

enabled_gateways(flows, group, finished, ongoing_ids) ==
  [ f \in GatewayFlows(flows, group, finished, ongoing_ids) |->
      [ id |-> bpmn.sequence_flows[f],
        enabled_time |->
          _compute_gateway_enabled_time(bpmn.sequence_flows[f], group, finished) ] ]

\* Variant: all() in place of any().
HasEnabledEndEvent_All(gateways) ==
  \A f \in DOMAIN gateways : is_end_event(gateways[f].id)

\* "if any(is_end_event(gateway['id']) for gateway in enabled_gateways)"
HasEnabledEndEvent(gateways) ==
  \E f \in DOMAIN gateways : is_end_event(gateways[f].id)

\* One iteration of the loop over the cases: every local the iteration
\* computes, from the oracle table it finds.
Iteration(case_id, table) ==
  LET group == Group(event_log, case_id)
      ongoing == ongoing_activities(group, table)
      state_marking == get_best_marking_state_for(n_gram(group))
      flows == state_flows(state_marking, ongoing)
      ids == ongoing_activity_ids(ongoing)
      finished == finished_activities(group)
      activities == enabled_activities(flows, group, finished, table)
      gateways == enabled_gateways(flows, group, finished, ids)
  IN [ locals |-> [ state_marking |-> state_marking,
                    state_flows |-> flows,
                    ongoing_activity_ids |-> ids,
                    enabled_gateways |-> gateways ],
       queried |-> IF Len(finished) = 0 THEN {}
                   ELSE { bpmn.activities[bpmn.sequence_flows[f]] : f \in ActivityFlows(flows) },
       concurrency |-> RegisterEnabled(table, flows, finished),
       skipped |-> HasEnabledEndEvent(gateways),
       case_state |->
         [ control_flow_state |-> [ flows |-> flows, activities |-> ids ],
           ongoing_activities |-> ongoing,
           enabled_activities |-> activities,
           enabled_gateways |-> gateways ] ]

\* ----------------------------------------------------------------- inputs
\* The i-th row of a case: an activity name of the model or an unknown
\* one, start time i, and either no end time (ongoing) or an end one unit
\* later.  Only ongoing rows have their enabled_time read.
EventRows(case_id, i) ==
  { [ case |-> case_id, activity |-> n, resource |-> "r",
      start_time |-> i, end_time |-> e, enabled_time |-> i ]
    : n \in LogNames, e \in {NaT, i + 1} }

\* An ongoing row logged without a start time.
StartlessRows(case_id) ==
  { [ case |-> case_id, activity |-> n, resource |-> "r",
      start_time |-> NaT, end_time |-> NaT, enabled_time |-> 1 ]
    : n \in LogNames }

\* The rows a case can have at position i of the log: the first one may
\* lack its start time.
RowsAt(case_id, i) ==
  IF i = 1 THEN EventRows(case_id, 1) \cup StartlessRows(case_id)
  ELSE EventRows(case_id, i)

\* The rows of one case, at most MaxEvents of them, logged in the order of
\* their start times, a row without a start time first.
CaseRows(case_id) ==
  UNION { { g \in [1..k -> UNION { RowsAt(case_id, i) : i \in 1..k }] :
              \A i \in 1..k : g[i] \in RowsAt(case_id, i) }
          : k \in 1..MaxEvents }

Markings == SUBSET FlowIds

\* A naming of the markings, used as node ids of the graph.
NodeId(marking) ==
  "m" \o (IF "f1" \in marking THEN "1" ELSE "0")
      \o (IF "f2" \in marking THEN "1" ELSE "0")
      \o (IF "f3" \in marking THEN "1" ELSE "0")

\* The source marking of the i-th edge: every flow but one.
SourceMarking(i) ==
  FlowIds \ { << "f3", "f2", "f1" >>[((i - 1) % 3) + 1] }

\* The graphs with a node for the marking m and k edges into it; labels[i]
\* is the activity of edge i, None for an edge without an activity label.
GraphWith(m, k, labels) ==
  LET nodes == {m} \cup { SourceMarking(i) : i \in 1..k }
  IN [ markings |-> [ n \in { NodeId(x) : x \in nodes } |->
                        CHOOSE x \in nodes : NodeId(x) = n ],
       marking_to_key |-> [ x \in nodes |-> NodeId(x) ],
       incoming_edges |-> [ n \in { NodeId(m) } |-> [ i \in 1..k |-> 100 + i ] ],
       edges |-> [ e \in { 100 + i : i \in 1..k } |->
                     << NodeId(SourceMarking(e - 100)), NodeId(m) >> ],
       edge_to_activity |->
         [ e \in { 100 + i : i \in { j \in 1..k : labels[j] # None } } |->
             labels[e - 100] ] ]

EmptyGraph ==
  [ markings |-> << >>, marking_to_key |-> << >>, incoming_edges |-> << >>,
    edges |-> << >>, edge_to_activity |-> << >> ]

GraphsFor(m) ==
  {EmptyGraph} \cup
  UNION { { GraphWith(m, k, labels) : labels \in [1..k -> TaskIds \cup {None}] }
          : k \in 0..MaxEdges }

\* Oracle tables the computation may start from.
Tables ==
  { [ n \in {} |-> {} ],
    [ n \in {"a", "b"} |-> IF n = "b" THEN {"a"} ELSE {} ] }

\* An oracle table that knows "a", concurrent to "b", and lacks "b".
PartialTable == [ n \in {"a"} |-> {"b"} ]

Traces(log) == { n_gram(Group(log, c)) : c \in CaseIds(log) }

\* No call of the model adapter's functions is under way.
NoTraversal ==
  [ start_id |-> None, stack |-> << >>, visited |-> {}, tasks_found |-> {},
    pushed |-> << >> ]

NoLookup == [ name |-> None, result |-> None ]

\* The state compute_case_states starts from.
Start(doc, log, table, index, graph) ==
  /\ document = doc
  /\ bpmn = parse_bpmn_xml(doc)
  /\ reachability_graph = graph
  /\ n_gram_index = index
  /\ event_log = log
  /\ concurrency = table
  /\ initial_concurrency = table
  /\ enabled_since_calls = {}
  /\ pending = CaseIds(log)
  /\ locals = << >>
  /\ case_states = << >>
  /\ traversal = NoTraversal
  /\ lookup = NoLookup

\* One case, any marking, any graph around the marking of the case.
Init ==
  \E doc \in Documents, log \in CaseRows(1), table \in {PartialTable} :
    \E index \in [Traces(log) -> Markings] :
      \E graph \in GraphsFor(index[n_gram(Group(log, 1))]) :
        Start(doc, log, table, index, graph)

\* Two cases of one event each, sharing the oracle table.
\* Ongoing rows whose start time or enabled_time is missing in the log.
OngoingVariants(case_id) ==
  { [ case |-> case_id, activity |-> n, resource |-> "r",
      start_time |-> se[1], end_time |-> NaT, enabled_time |-> se[2] ]
    : n \in LogNames, se \in { << 1, NaT >>, << NaT, 1 >> } }

SingleRows(case_id) ==
  { << row >> : row \in EventRows(case_id, 1) \cup OngoingVariants(case_id) }

CaseMarkings == { {}, {"f2"}, {"f1", "f3"} }

InitCases ==
  \E doc \in Documents, rows1 \in SingleRows(1), rows2 \in SingleRows(2),
     table \in Tables :
    \E index \in [Traces(rows1 \o rows2) -> CaseMarkings] :
      \E graph \in { EmptyGraph,
                     GraphWith(index[n_gram(rows1)], 1, << None >>) } :
        Start(doc, rows1 \o rows2, table, index, graph)

\* ---------------------------------------------------------------- actions
NextCase == CHOOSE c \in pending : \A d \in pending : c <= d

Extend(f, k, v) == [ x \in DOMAIN f \cup {k} |-> IF x = k THEN v ELSE f[x] ]

\* One iteration that ends in "case_states[case_id] = {...}".
StoreCase ==
  /\ pending # {}
  /\ \E it \in { Iteration(NextCase, concurrency) } :
        /\ ~ it.skipped
        /\ case_states' = Extend(case_states, NextCase, it.case_state)
        /\ locals' = Extend(locals, NextCase, it.locals)
        /\ concurrency' = it.concurrency
        /\ enabled_since_calls' =
             enabled_since_calls \cup { << NextCase, n >> : n \in it.queried }
  /\ pending' = pending \ {NextCase}
  /\ UNCHANGED << document, bpmn, reachability_graph, n_gram_index, event_log,
                  initial_concurrency, traversal, lookup >>

\* One iteration that ends in "continue": an enabled gateway is an end event.
SkipCase ==
  /\ pending # {}
  /\ \E it \in { Iteration(NextCase, concurrency) } :
        /\ it.skipped
        /\ locals' = Extend(locals, NextCase, it.locals)
        /\ concurrency' = it.concurrency
        /\ enabled_since_calls' =
             enabled_since_calls \cup { << NextCase, n >> : n \in it.queried }
  /\ pending' = pending \ {NextCase}
  /\ UNCHANGED << document, bpmn, reachability_graph, n_gram_index, event_log,
                  initial_concurrency, case_states, traversal, lookup >>

Next == StoreCase \/ SkipCase

Spec == Init /\ [][Next]_vars

SpecCases == InitCases /\ [][Next]_vars

\* ------------------------------------------------------------ properties
\* The log rows of a case, read off the event log directly.
RowsOf(c) == { event_log[i] : i \in { j \in DOMAIN event_log : event_log[j].case = c } }
OngoingRowsOf(c) == { r \in RowsOf(c) : r.end_time = NaT }
FinishedRowsOf(c) == { r \in RowsOf(c) : r.end_time # NaT }

\* The model activity ids of the ongoing events of a case.
ResolvedOngoing(c) ==
  { bpmn.task_name_to_id[r.activity] :
      r \in { q \in OngoingRowsOf(c) : q.activity \in DOMAIN bpmn.task_name_to_id } }

\* The marking the matcher returned for the trace of a case.
MatcherMarking(c) == n_gram_index[n_gram(Group(event_log, c))]

Emitted == DOMAIN case_states
Processed == DOMAIN locals

\* C1: the flows of every emitted case are a subset of the marking the
\* matcher returned for the case's trace.
Thm_C1 ==
  \A c \in Emitted :
    case_states[c].control_flow_state.flows \subseteq MatcherMarking(c)

\* A case with a resolved ongoing activity whose correction removed some,
\* but not all, flows of the matcher's marking.
Wit_C1 ==
  \E c \in Emitted :
    /\ ResolvedOngoing(c) # {}
    /\ case_states[c].control_flow_state.flows # {}
    /\ case_states[c].control_flow_state.flows # MatcherMarking(c)

\* C2: control_flow_state.activities of every emitted case is exactly the
\* set of resolved ids of the case's ongoing events, with no None entry.
Cex_C2 ==
  \A c \in Emitted :
    case_states[c].control_flow_state.activities = ResolvedOngoing(c)

\* C3: no element whose upstream task set contains the id of an ongoing
\* activity of the case is reported in enabled_gateways.
Thm_C3 ==
  \A c \in Processed :
    \A f \in DOMAIN locals[c].enabled_gateways :
      get_upstream_tasks_through_gateways(locals[c].enabled_gateways[f].id)
        \cap ResolvedOngoing(c) = {}

\* A case with a finished event whose final flows reach a non-activity
\* element fed by an ongoing task: the element is left out.
Wit_C3 ==
  \E c \in Emitted :
    /\ FinishedRowsOf(c) # {}
    /\ \E f \in case_states[c].control_flow_state.flows :
         /\ bpmn.sequence_flows[f] \notin DOMAIN bpmn.activities
         /\ get_upstream_tasks_through_gateways(bpmn.sequence_flows[f])
              \cap ResolvedOngoing(c) # {}
         /\ f \notin DOMAIN case_states[c].enabled_gateways

\* C4: a processed case is in the result mapping iff none of the enabled
\* gateways computed for it is an end event, and no emitted case lists an
\* end event among its enabled gateways.
Thm_C4 ==
  /\ \A c \in Processed :
       (c \in Emitted) <=>
         ~ \E f \in DOMAIN locals[c].enabled_gateways :
             locals[c].enabled_gateways[f].id \in bpmn.end_events
  /\ \A c \in Emitted :
       \A f \in DOMAIN case_states[c].enabled_gateways :
         case_states[c].enabled_gateways[f].id \notin bpmn.end_events

\* A case left out of the mapping for an enabled end event.
Wit_C4 ==
  \E c \in Processed :
    /\ c \notin Emitted
    /\ \E f \in DOMAIN locals[c].enabled_gateways :
         locals[c].enabled_gateways[f].id \in bpmn.end_events

\* The case of C5: the events of the case are events of model tasks, some
\* have finished and the others started after these, and every flow of the
\* matcher's marking leads from a task that is ongoing to an end event.
OnlyEndRemains(c) ==
  /\ FinishedRowsOf(c) # {}
  /\ \A r \in RowsOf(c) : r.activity \in DOMAIN bpmn.task_name_to_id
  /\ \A r \in FinishedRowsOf(c), q \in OngoingRowsOf(c) : r.end_time <= q.start_time
  /\ MatcherMarking(c) # {}
  /\ \A f \in MatcherMarking(c) :
       /\ bpmn.sequence_flows[f] \in bpmn.end_events
       /\ bpmn.flow_sources[f] \in ResolvedOngoing(c)

\* C5 as claimed: when only an end event remains to be enabled once the
\* ongoing tasks finish, the case is absent from the result mapping.
Cex_C5 ==
  \A c \in Processed : OnlyEndRemains(c) => c \notin Emitted

\* C5 amended: in that situation the case is present in the result mapping
\* and reports no enabled gateway and no enabled activity.
Thm_C5 ==
  \A c \in Processed :
    OnlyEndRemains(c) =>
      /\ c \in Emitted
      /\ DOMAIN case_states[c].enabled_gateways = {}
      /\ DOMAIN case_states[c].enabled_activities = {}

\* The scenario A -> B -> end: a finished event of a task whose flow leads
\* to the ongoing task, whose flow leads to the end event.
Wit_C5 ==
  \E c \in Emitted :
    /\ OnlyEndRemains(c)
    /\ \E f \in MatcherMarking(c), f0 \in DOMAIN bpmn.sequence_flows,
          r \in FinishedRowsOf(c) :
         /\ bpmn.sequence_flows[f0] = bpmn.flow_sources[f]
         /\ bpmn.flow_sources[f0] = bpmn.task_name_to_id[r.activity]

\* C6 as claimed: the record emitted for a case is the one the case gets
\* when it is processed first, from the initial oracle table, whatever
\* cases were processed before it.
Cex_C6 ==
  \A c \in Emitted :
    case_states[c] = Iteration(c, initial_concurrency).case_state

\* The ongoing-activity records of a case without the unresolved ones.
ResolvedRecords(c) ==
  SelectSeq(ongoing_activities(Group(event_log, c), initial_concurrency),
            LAMBDA a : a.id # None)

\* C7 as claimed: the final flows of a case are the ones the resolved
\* ongoing activities alone produce, and the unresolved id suppresses no
\* gateway.
Cex_C7 ==
  \A c \in Processed :
    LET group == Group(event_log, c)
        finished == finished_activities(group)
    IN /\ locals[c].state_flows = state_flows(MatcherMarking(c), ResolvedRecords(c))
       /\ DOMAIN locals[c].enabled_gateways =
            GatewayFlows(locals[c].state_flows, group, finished,
                         locals[c].ongoing_activity_ids \ {None})

\* C8: a case whose trace the matcher answers with the empty marking is
\* emitted with no flows, no enabled activities and no enabled gateways,
\* and every case of the log is processed by the end of the loop.
Thm_C8 ==
  /\ \A c \in Processed :
       MatcherMarking(c) = {} =>
         /\ c \in Emitted
         /\ case_states[c].control_flow_state.flows = {}
         /\ DOMAIN case_states[c].enabled_activities = {}
         /\ DOMAIN case_states[c].enabled_gateways = {}
  /\ Processed \cup pending = CaseIds(event_log)

\* The loop is over, the first case had the empty marking, and the case
\* after it was computed and emitted with flows.
Wit_C8 ==
  /\ pending = {}
  /\ \E c, d \in Emitted :
       /\ c < d
       /\ MatcherMarking(c) = {}
       /\ case_states[d].control_flow_state.flows # {}

ElementIds == {"start", "A", "B", "g", "end"}

\* The enabled time C9 states for a gateway and a case, from the log rows.
GatewayTimeC9(gateway_id, c) ==
  LET upstream == get_upstream_tasks_through_gateways(gateway_id)
      names == { bpmn.activities[t] : t \in upstream }
      all_ends == { r.end_time : r \in FinishedRowsOf(c) }
      upstream_ends ==
        { r.end_time : r \in { q \in FinishedRowsOf(c) : q.activity \in names } }
  IN IF upstream = {} THEN SetMax(all_ends)
     ELSE IF upstream_ends # {} THEN SetMax(upstream_ends)
     ELSE SetMax(all_ends)

\* C9: the gateway enabled time is the latest end of the finished events of
\* the upstream tasks, or of all finished events when there is no upstream
\* task or none of them has finished; it is defined when the case has a
\* finished event, and never later than the latest finished end.
Thm_C9 ==
  \A c \in Processed :
    LET group == Group(event_log, c)
        ended == finished_activities(group)
        latest == SetMax({ r.end_time : r \in FinishedRowsOf(c) })
    IN /\ \A gw \in ElementIds :
            LET t == _compute_gateway_enabled_time(gw, group, ended)
            IN /\ t = GatewayTimeC9(gw, c)
               /\ FinishedRowsOf(c) # {} => (t # NaT /\ t <= latest)
       /\ \A f \in DOMAIN locals[c].enabled_gateways :
            locals[c].enabled_gateways[f].enabled_time =
              GatewayTimeC9(locals[c].enabled_gateways[f].id, c)

\* A reported gateway whose enabled time is the end of an upstream task
\* that finished before the latest finished event of the case.
Wit_C9 ==
  \E c \in Emitted :
    \E f \in DOMAIN case_states[c].enabled_gateways :
      /\ get_upstream_tasks_through_gateways(case_states[c].enabled_gateways[f].id) # {}
      /\ case_states[c].enabled_gateways[f].enabled_time
           < SetMax({ r.end_time : r \in FinishedRowsOf(c) })

\* The earliest of the start times the case's rows carry, none when no row
\* carries one.
EarliestStart(c) ==
  LET S == { r.start_time : r \in RowsOf(c) } \ {NaT}
  IN IF S = {} THEN NaT ELSE CHOOSE m \in S : \A x \in S : m <= x

\* C10: an iteration for a case without finished events gives every
\* enabled activity the earliest start time of the case, and leaves the
\* oracle table and the set of enabled_since queries as they were.
StepC10 ==
  \A c \in (DOMAIN locals') \ (DOMAIN locals) :
    FinishedRowsOf(c) = {} =>
      /\ concurrency' = concurrency
      /\ enabled_since_calls' = enabled_since_calls
      /\ c \in DOMAIN case_states' =>
           \A f \in DOMAIN case_states'[c].enabled_activities :
             case_states'[c].enabled_activities[f].enabled_time = EarliestStart(c)

Thm_C10 == [][StepC10]_vars

\* A case of two ongoing events, the one logged first without a start
\* time, with an enabled activity whose name the oracle table does not hold
\* and whose enabled time is the start of the other event.
Wit_C10 ==
  \E c \in Emitted :
    /\ FinishedRowsOf(c) = {}
    /\ Cardinality(RowsOf(c)) = 2
    /\ \E r \in RowsOf(c) : isna(r.start_time)
    /\ \E f \in DOMAIN case_states[c].enabled_activities :
         /\ bpmn.activities[case_states[c].enabled_activities[f].id] \notin DOMAIN concurrency
         /\ case_states[c].enabled_activities[f].enabled_time = 2

\* ------------------------------------------- the upstream traversal alone
\* The elements of the models the traversal is run on: the tasks A and B
\* and three elements that are not tasks.
UpstreamNodes == << "A", "B", "g", "h", "j" >>

\* The k-th (source, target) pair of elements.
FlowPair(k) ==
  [ sourceRef |-> UpstreamNodes[((k - 1) \div Len(UpstreamNodes)) + 1],
    targetRef |-> UpstreamNodes[((k - 1) % Len(UpstreamNodes)) + 1] ]

FlowName(i) == "f" \o << "1", "2", "3", "4", "5", "6" >>[i]

\* Documents with at most MaxFlows sequence flows between any elements,
\* loops and flows into and out of tasks included, listed by pair number.
UpstreamDocuments ==
  LET pairs == 1..(Len(UpstreamNodes) * Len(UpstreamNodes))
      lists == UNION { { s \in [1..k -> pairs] :
                           \A i \in 1..(k - 1) : s[i] < s[i + 1] }
                       : k \in 0..MaxFlows }
  IN { [ tasks |-> << [id |-> "A", name |-> "a"], [id |-> "B", name |-> "b"] >>,
         endEvents |-> {},
         flows |-> [ i \in DOMAIN s |->
                       [ id |-> FlowName(i),
                         sourceRef |-> FlowPair(s[i]).sourceRef,
                         targetRef |-> FlowPair(s[i]).targetRef ] ] ]
       : s \in lists }

\* The ids the traversal is started from: every element, and an id the
\* model does not know.
StartIds == { UpstreamNodes[i] : i \in DOMAIN UpstreamNodes } \cup { "unknown" }

\* The state after "visited = set(); stack = [gateway_id]; tasks_found =
\* set()" of a call on a freshly parsed model.
InitUpstream ==
  \E doc \in UpstreamDocuments, gateway_id \in StartIds :
    /\ document = doc
    /\ bpmn = parse_bpmn_xml(doc)
    /\ reachability_graph = EmptyGraph
    /\ n_gram_index = << >>
    /\ event_log = << >>
    /\ concurrency = << >>
    /\ initial_concurrency = << >>
    /\ enabled_since_calls = {}
    /\ pending = {}
    /\ locals = << >>
    /\ case_states = << >>
    /\ traversal = [ start_id |-> gateway_id, stack |-> << gateway_id >>,
                     visited |-> {}, tasks_found |-> {},
                     pushed |-> << gateway_id >> ]
    /\ lookup = NoLookup

\* One iteration of "while stack": pop; a task is recorded, any other
\* element has the unvisited sources of its incoming flows pushed.
UpstreamStep ==
  /\ traversal.stack # << >>
  /\ LET stack == traversal.stack
         current == stack[Len(stack)]
         rest == SubSeq(stack, 1, Len(stack) - 1)
     IN IF current \in DOMAIN bpmn.activities
        THEN traversal' = [ traversal EXCEPT
                              !.stack = rest,
                              !.tasks_found = @ \cup {current} ]
        ELSE LET sv == UpstreamScan(current, 1, << rest, traversal.visited >>)
             IN traversal' = [ traversal EXCEPT
                                 !.stack = sv[1],
                                 !.visited = sv[2],
                                 !.pushed = @ \o SubSeq(sv[1], Len(rest) + 1, Len(sv[1])) ]
  /\ UNCHANGED << document, bpmn, reachability_graph, n_gram_index, event_log,
                  concurrency, initial_concurrency, enabled_since_calls,
                  pending, locals, case_states, lookup >>

NextUpstream == UpstreamStep

SpecUpstream == InitUpstream /\ [][NextUpstream]_vars

\* The loop runs on as long as the stack is not empty.
SpecUpstreamFair == SpecUpstream /\ WF_vars(UpstreamStep)

\* The sources of the flows into the elements of S that are not tasks.
Back(S) ==
  S \cup { bpmn.flow_sources[f] :
             f \in { x \in DOMAIN bpmn.sequence_flows :
                       /\ bpmn.sequence_flows[x] \in S
                       /\ bpmn.sequence_flows[x] \notin DOMAIN bpmn.activities } }

\* The elements with a backward path from S all of whose elements but the
\* last are not tasks.
RECURSIVE BackClosure(_)
BackClosure(S) == IF Back(S) = S THEN S ELSE BackClosure(Back(S))

\* The tasks C11 describes for start_id.
UpstreamPaths(start_id) == BackClosure({start_id}) \cap DOMAIN bpmn.activities

Returned == traversal.start_id # None /\ traversal.stack = << >>

\* C11: the set a finished traversal returns is exactly the set of tasks
\* with a backward path from start_id through elements that are not tasks:
\* the start id alone when it is a task, nothing when no path reaches a
\* task; the function of the model computes the same set.
Thm_C11 ==
  Returned =>
    /\ traversal.tasks_found = UpstreamPaths(traversal.start_id)
    /\ get_upstream_tasks_through_gateways(traversal.start_id) = traversal.tasks_found
    /\ traversal.start_id \in DOMAIN bpmn.activities =>
         traversal.tasks_found = {traversal.start_id}

\* A finished traversal from an element on a cycle that found a task and
\* left out a task behind it.
Wit_C11 ==
  /\ Returned
  /\ traversal.start_id \notin DOMAIN bpmn.activities
  /\ traversal.start_id \in traversal.visited
  /\ \E t \in traversal.tasks_found, f \in DOMAIN bpmn.sequence_flows :
       /\ bpmn.sequence_flows[f] = t
       /\ bpmn.flow_sources[f] \in DOMAIN bpmn.activities \ traversal.tasks_found
\* How many times the element e was pushed on the stack.
Pushes(e) ==
  Cardinality({ i \in DOMAIN traversal.pushed : traversal.pushed[i] = e })

\* The start id is pushed at most twice, any other element at most once,
\* and only the start id and sources of flows are pushed.
PushesBounded ==
  /\ Pushes(traversal.start_id) <= 2
  /\ \A i \in DOMAIN traversal.pushed :
       LET e == traversal.pushed[i]
       IN /\ e # traversal.start_id => Pushes(e) <= 1
          /\ i > 1 => \E f \in DOMAIN bpmn.flow_sources : bpmn.flow_sources[f] = e

\* C16: every traversal comes to an end, whatever the flows and the start
\* id, and no element is pushed on the stack more than twice.
Thm_C16 == ([] PushesBounded) /\ (<> Returned)

\* A finished traversal that pushed its start id a second time, over a
\* cycle leading back to it.
Wit_C16 ==
  /\ Returned
  /\ Pushes(traversal.start_id) = 2
  /\ Len(traversal.pushed) >= 3
\* ------------------------------------------------ the name lookup alone
\* A task element: an id, and a name attribute that may be missing (None).
TaskElements ==
  { [ id |-> i, name |-> n ] :
      i \in {"A", "B"}, n \in {"a", "b", None, "Unnamed Task A"} }

\* Documents of at most MaxTasks task elements, in document order; names
\* and ids may repeat.
NameDocuments ==
  { [ tasks |-> ts, endEvents |-> {}, flows |-> << >> ] :
      ts \in UNION { [1..k -> TaskElements] : k \in 0..MaxTasks } }

\* The names looked up: names of tasks, defaulted names, and a name no
\* task has.
LookupNames == {"a", "b", "c", "Unnamed Task A", "Unnamed Task B"}

\* The adapter after __init__ on any of these documents.
InitNames ==
  \E doc \in NameDocuments :
    /\ document = doc
    /\ bpmn = parse_bpmn_xml(doc)
    /\ reachability_graph = EmptyGraph
    /\ n_gram_index = << >>
    /\ event_log = << >>
    /\ concurrency = << >>
    /\ initial_concurrency = << >>
    /\ enabled_since_calls = {}
    /\ pending = {}
    /\ locals = << >>
    /\ case_states = << >>
    /\ traversal = NoTraversal
    /\ lookup = NoLookup

\* A call get_task_id_by_name(name).
Lookup ==
  /\ \E name \in LookupNames :
       lookup' = [ name |-> name, result |-> get_task_id_by_name(name) ]
  /\ UNCHANGED << document, bpmn, reachability_graph, n_gram_index, event_log,
                  concurrency, initial_concurrency, enabled_since_calls,
                  pending, locals, case_states, traversal >>

NextNames == Lookup

SpecNames == InitNames /\ [][NextNames]_vars

\* The name of the i-th task element of the document, defaulted.
NameAt(i) == t_name(document.tasks[i])

NamesDistinct ==
  \A i, j \in DOMAIN document.tasks : i # j => NameAt(i) # NameAt(j)

\* C18: a lookup returns the id of the last task element with that name,
\* or none when there is none; every id of the document stays in the
\* activities table; and when the names are distinct, id -> name -> id and
\* name -> id -> name give back what they started from for every activity.
Thm_C18 ==
  /\ lookup.name # None =>
       \/ /\ \A i \in DOMAIN document.tasks : NameAt(i) # lookup.name
          /\ lookup.result = None
       \/ \E i \in DOMAIN document.tasks :
            /\ NameAt(i) = lookup.name
            /\ \A j \in DOMAIN document.tasks : j > i => NameAt(j) # lookup.name
            /\ lookup.result = document.tasks[i].id
  /\ \A i \in DOMAIN document.tasks : document.tasks[i].id \in DOMAIN bpmn.activities
  /\ NamesDistinct =>
       \A t \in DOMAIN bpmn.activities :
         /\ get_task_id_by_name(bpmn.activities[t]) = t
         /\ bpmn.activities[get_task_id_by_name(bpmn.activities[t])] = bpmn.activities[t]

\* A lookup of a name two tasks with different ids share, one of them by
\* the default for a missing name: the id of the later one is returned.
Wit_C18 ==
  \E i, j \in DOMAIN document.tasks :
    /\ i < j
    /\ document.tasks[i].id # document.tasks[j].id
    /\ document.tasks[i].name = None
    /\ NameAt(i) = NameAt(j)
    /\ lookup.name = NameAt(j)
    /\ lookup.result = document.tasks[j].id
\* The names of the model activities the flows of a processed case lead to.
EnabledNames(flows) ==
  { bpmn.activities[bpmn.sequence_flows[f]] :
      f \in { x \in flows : bpmn.sequence_flows[x] \in DOMAIN bpmn.activities } }

\* The enabled time C12 states for an ongoing row, given the oracle table
\* found when its case is processed.
OngoingTimeC12(row, table) ==
  IF /\ row.activity \in DOMAIN table
     /\ row.activity \in DOMAIN bpmn.task_name_to_id
     /\ row.start_time # NaT
  THEN row.enabled_time
  ELSE NaT

\* C12: the iteration of an emitted case gives each ongoing record the
\* enabled_time of its log row when the row's name is in the oracle table
\* the iteration starts with, resolves to a task and has a start time, and
\* none otherwise; the enabled_since queries of an iteration are those for
\* the enabled activities, none in a case without finished events.
StepC12 ==
  \A c \in (DOMAIN locals') \ (DOMAIN locals) :
    /\ c \in DOMAIN case_states' =>
         LET og == SelectSeq(Group(event_log, c), LAMBDA r : r.end_time = NaT)
             recs == case_states'[c].ongoing_activities
         IN /\ Len(recs) = Len(og)
            /\ \A i \in DOMAIN og :
                 /\ recs[i].enabled_time = OngoingTimeC12(og[i], concurrency)
                 /\ recs[i].start_time = og[i].start_time
    /\ enabled_since_calls' \ enabled_since_calls =
         IF FinishedRowsOf(c) = {} THEN {}
         ELSE { << c, n >> : n \in EnabledNames(locals'[c].state_flows) }

Thm_C12 == [][StepC12]_vars

\* An emitted case whose ongoing record carries the log's enabled_time
\* because an earlier case registered its name in the oracle table.
Wit_C12 ==
  \E c \in Emitted :
    \E i \in DOMAIN case_states[c].ongoing_activities :
      /\ case_states[c].ongoing_activities[i].enabled_time # NaT
      /\ \A r \in OngoingRowsOf(c) : r.activity \notin DOMAIN initial_concurrency
\* The incoming edges of the node of marking m, in list order.
IncomingOf(m) ==
  LET node == reachability_graph.marking_to_key[m]
  IN IF node \in DOMAIN reachability_graph.incoming_edges
     THEN reachability_graph.incoming_edges[node]
     ELSE << >>

\* The positions of the incoming edges of m whose label, None for an edge
\* without one, equals t.
LabelledBy(m, t) ==
  { i \in DOMAIN IncomingOf(m) :
      Get(reachability_graph.edge_to_activity, IncomingOf(m)[i]) = t }

\* The source marking of the first incoming edge of m labelled t.
FirstSource(m, t) ==
  LET i == CHOOSE k \in LabelledBy(m, t) : \A j \in LabelledBy(m, t) : k <= j
  IN reachability_graph.markings[reachability_graph.edges[IncomingOf(m)[i]][1]]

\* C13 as claimed: when the graph has a node for the matcher's marking,
\* the final flows are the marking cut by the source marking of the first
\* incoming edge labelled by each resolved ongoing activity that labels
\* one, and by nothing else; without such a node they are the marking.
Cex_C13 ==
  \A c \in Processed :
    LET m == MatcherMarking(c)
    IN IF m \in DOMAIN reachability_graph.marking_to_key
       THEN locals[c].state_flows =
              { f \in m : \A t \in ResolvedOngoing(c) :
                           LabelledBy(m, t) # {} => f \in FirstSource(m, t) }
       ELSE locals[c].state_flows = m
\* C14: an iteration leaves the document, the adapter's tables, the
\* reachability graph, the matcher's index and the event log as they were;
\* every entry of the oracle table stays as it was; and every entry it adds
\* is empty, is for the name of an activity enabled in the case, whose
\* enabled_since query follows in the same iteration, and the case has a
\* finished event.
StepC14 ==
  /\ document' = document
  /\ bpmn' = bpmn
  /\ reachability_graph' = reachability_graph
  /\ n_gram_index' = n_gram_index
  /\ event_log' = event_log
  /\ \A n \in DOMAIN concurrency :
       n \in DOMAIN concurrency' /\ concurrency'[n] = concurrency[n]
  /\ \A n \in (DOMAIN concurrency') \ (DOMAIN concurrency) :
       /\ concurrency'[n] = {}
       /\ \E c \in (DOMAIN locals') \ (DOMAIN locals) :
            /\ FinishedRowsOf(c) # {}
            /\ n \in EnabledNames(locals'[c].state_flows)
            /\ << c, n >> \in enabled_since_calls' \ enabled_since_calls

Thm_C14 == [][StepC14]_vars

\* A processed case with two enabled activities: the name of one was in
\* the oracle table with a non-empty entry, which is kept, and the name of
\* the other was added with an empty entry.
Wit_C14 ==
  \E c \in Processed :
    \E n1, n2 \in EnabledNames(locals[c].state_flows) :
      /\ n1 \in DOMAIN initial_concurrency
      /\ initial_concurrency[n1] # {}
      /\ concurrency[n1] = initial_concurrency[n1]
      /\ n2 \notin DOMAIN initial_concurrency
      /\ n2 \in DOMAIN concurrency
      /\ concurrency[n2] = {}
\* The ids listed in a list of enabled elements.
ListedIds(entries) == { entries[f].id : f \in DOMAIN entries }

\* The targets of the flows of the emitted control_flow_state.
FlowTargets(c) ==
  { bpmn.sequence_flows[f] : f \in case_states[c].control_flow_state.flows }

\* C15: in every emitted case the enabled activities are exactly the model
\* activities the emitted flows lead to, every enabled gateway is an
\* element other than an activity that an emitted flow leads to, and no
\* element is in both lists.
Thm_C15 ==
  \A c \in Emitted :
    LET acts == ListedIds(case_states[c].enabled_activities)
        gws == ListedIds(case_states[c].enabled_gateways)
    IN /\ acts = FlowTargets(c) \cap DOMAIN bpmn.activities
       /\ gws \subseteq FlowTargets(c) \ DOMAIN bpmn.activities
       /\ acts \cap gws = {}

\* An emitted case whose correction removed a flow of the matcher's marking
\* and whose remaining flows enable an activity and a gateway, while the
\* removed flow led to an element that is not listed.
Wit_C15 ==
  \E c \in Emitted :
    /\ ListedIds(case_states[c].enabled_activities) # {}
    /\ ListedIds(case_states[c].enabled_gateways) # {}
    /\ \E f \in MatcherMarking(c) \ case_states[c].control_flow_state.flows :
         bpmn.sequence_flows[f] \notin
           ListedIds(case_states[c].enabled_activities)
             \cup ListedIds(case_states[c].enabled_gateways)
\* C17: a processed case without finished events has no enabled gateway
\* computed for it and is in the result mapping, with an empty
\* enabled_gateways list.
Thm_C17 ==
  \A c \in Processed :
    FinishedRowsOf(c) = {} =>
      /\ DOMAIN locals[c].enabled_gateways = {}
      /\ c \in Emitted
      /\ DOMAIN case_states[c].enabled_gateways = {}

\* An emitted case without finished events one of whose final flows leads
\* to an end event that no ongoing task of the case is upstream of.
Wit_C17 ==
  \E c \in Emitted :
    /\ FinishedRowsOf(c) = {}
    /\ \E f \in case_states[c].control_flow_state.flows :
         /\ bpmn.sequence_flows[f] \in bpmn.end_events
         /\ get_upstream_tasks_through_gateways(bpmn.sequence_flows[f])
              \cap locals[c].ongoing_activity_ids = {}
====
